---------------------------- MODULE Spec2Model ----------------------------
(***************************************************************************)
(* A model of the raytrace-rs path tracer: Ray, Material, the Plane and    *)
(* Sphere primitives (collidable.rs), the cameras (camera.rs) and the      *)
(* Solver's render loop and recursive transport sampler (solver.rs).       *)
(*                                                                         *)
(* f64 values are modelled as fixed-point numbers: the integer v stands    *)
(* for the real v / Scale.  The IEEE special values are kept, because the  *)
(* code's comparisons decide differently on them: PInf and NInf are the    *)
(* two infinities (also the result of an overflow), NaN compares false     *)
(* with everything.  Every arithmetic operator below follows the IEEE      *)
(* rules for those values (x/0, 0/0, inf-inf, 0*inf, sqrt of a negative).  *)
(* Signed zero is not modelled: -0.0 and 0.0 are the one value 0, which    *)
(* the code's comparisons (< 0.0, > 0.0) do not tell apart either.         *)
(***************************************************************************)
EXTENDS Integers, Sequences, FiniteSets, TLC

(***************************************************************************)
(* Fixed-point f64                                                         *)
(***************************************************************************)
Scale == 10000
PInf == Scale * Scale
NInf == -PInf
NaN == PInf + 1

F(n) == n * Scale
One == Scale

IsFinite(a) == a # NaN /\ a # PInf /\ a # NInf

Sat(v) == IF v >= PInf THEN PInf ELSE IF v <= NInf THEN NInf ELSE v

AbsI(v) == IF v < 0 THEN -v ELSE v
SgnI(v) == IF v < 0 THEN -1 ELSE IF v > 0 THEN 1 ELSE 0

Neg(a) == IF a = NaN THEN NaN ELSE -a

Add(a, b) ==
    IF a = NaN \/ b = NaN THEN NaN
    ELSE IF a = PInf THEN (IF b = NInf THEN NaN ELSE PInf)
    ELSE IF a = NInf THEN (IF b = PInf THEN NaN ELSE NInf)
    ELSE IF b = PInf \/ b = NInf THEN b
    ELSE Sat(a + b)

Sub(a, b) == Add(a, Neg(b))

\* |p| * |q| / Scale for finite magnitudes, rounded to nearest, computed in
\* halves so that no intermediate product leaves the 32-bit range.
MulMag(p, q) ==
    LET ph == p \div Scale
        pl == p % Scale
        qh == q \div Scale
        ql == q % Scale
    IN  IF ph * qh >= Scale THEN PInf
        ELSE Sat(ph * qh * Scale + ph * ql + pl * qh
                 + ((pl * ql + (Scale \div 2)) \div Scale))

Mul(a, b) ==
    IF a = NaN \/ b = NaN THEN NaN
    ELSE IF ~IsFinite(a) \/ ~IsFinite(b)
         THEN (IF a = 0 \/ b = 0 THEN NaN
               ELSE IF SgnI(a) * SgnI(b) > 0 THEN PInf ELSE NInf)
    ELSE SgnI(a) * SgnI(b) * MulMag(AbsI(a), AbsI(b))

\* Long division: k more decimal digits of r / q after the quotient acc,
\* the last one rounded.
RECURSIVE LongDiv(_, _, _, _)
LongDiv(r, q, k, acc) ==
    IF k = 0 THEN acc + (IF 2 * r >= q THEN 1 ELSE 0)
    ELSE LongDiv((r * 10) % q, q, k - 1, acc * 10 + ((r * 10) \div q))

\* |p| * Scale / |q| for finite magnitudes, q > 0.
DivMag(p, q) ==
    IF p \div q >= Scale THEN PInf ELSE Sat(LongDiv(p % q, q, 4, p \div q))

Div(a, b) ==
    IF a = NaN \/ b = NaN THEN NaN
    ELSE IF ~IsFinite(a)
         THEN (IF ~IsFinite(b) THEN NaN
               ELSE IF SgnI(a) * (IF b < 0 THEN -1 ELSE 1) > 0 THEN PInf ELSE NInf)
    ELSE IF ~IsFinite(b) THEN 0
    ELSE IF b = 0
         THEN (IF a = 0 THEN NaN ELSE IF a > 0 THEN PInf ELSE NInf)
    ELSE SgnI(a) * SgnI(b) * DivMag(AbsI(a), AbsI(b))

Recip(a) == Div(One, a)

\* The integer square root of n, r being twice that of n \div 4.
ISqrtStep(r, n) == IF (r + 1) * (r + 1) <= n THEN r + 1 ELSE r

RECURSIVE ISqrt(_)
ISqrt(n) == IF n < 2 THEN n ELSE ISqrtStep(2 * ISqrt(n \div 4), n)

\* One more decimal digit of a square root: r is the root so far and rem
\* what is left of the radicand.
SqrtDigit(r, rem) ==
    CHOOSE d \in 0..9 :
        /\ (20 * r + d) * d <= rem * 100
        /\ (d = 9 \/ (20 * r + d + 1) * (d + 1) > rem * 100)

\* k more decimal digits of the root r with remainder rem
RECURSIVE SqrtMore(_, _, _)
SqrtWith(r, rem, d, k) ==
    SqrtMore(10 * r + d, rem * 100 - (20 * r + d) * d, k - 1)
SqrtMore(r, rem, k) ==
    IF k = 0 THEN r ELSE SqrtWith(r, rem, SqrtDigit(r, rem), k)

SqrtFrom(r, a) == SqrtMore(r, a - r * r, 2)

\* f64::sqrt, rounded down to the grid
Sqrt(a) ==
    IF a = NaN THEN NaN
    ELSE IF a < 0 THEN NaN
    ELSE IF a = PInf THEN PInf
    ELSE SqrtFrom(ISqrt(a), a)

\* The comparisons of f64: false as soon as one side is NaN.
Lt(a, b) == a # NaN /\ b # NaN /\ a < b
Gt(a, b) == a # NaN /\ b # NaN /\ a > b
Le(a, b) == a # NaN /\ b # NaN /\ a <= b

\* f64::min: the other operand when one is NaN.
Min(a, b) == IF a = NaN THEN b ELSE IF b = NaN THEN a ELSE IF b < a THEN b ELSE a

\* f64::abs, f64::powi(2)
Abs(a) == IF a = NaN THEN NaN ELSE AbsI(a)
Sq(a) == Mul(a, a)

\* f64::clamp: NaN stays NaN.
Clamp(a, lo, hi) ==
    IF a = NaN THEN NaN ELSE IF a < lo THEN lo ELSE IF a > hi THEN hi ELSE a

\* `as u8`: saturating, truncating toward zero, NaN to 0.
AsU8(a) ==
    IF a = NaN THEN 0
    ELSE IF a <= 0 THEN 0
    ELSE IF a >= F(255) THEN 255
    ELSE a \div Scale

(***************************************************************************)
(* DVec3 (glam)                                                            *)
(***************************************************************************)
Vec(x, y, z) == [x |-> x, y |-> y, z |-> z]
VZero == Vec(0, 0, 0)
VecI(x, y, z) == Vec(F(x), F(y), F(z))

VAdd(a, b) == Vec(Add(a.x, b.x), Add(a.y, b.y), Add(a.z, b.z))
VSub(a, b) == Vec(Sub(a.x, b.x), Sub(a.y, b.y), Sub(a.z, b.z))
VNeg(a) == Vec(Neg(a.x), Neg(a.y), Neg(a.z))
VScale(a, k) == Vec(Mul(a.x, k), Mul(a.y, k), Mul(a.z, k))
VMul(a, b) == Vec(Mul(a.x, b.x), Mul(a.y, b.y), Mul(a.z, b.z))
Dot(a, b) == Add(Add(Mul(a.x, b.x), Mul(a.y, b.y)), Mul(a.z, b.z))
Cross(a, b) ==
    Vec(Sub(Mul(a.y, b.z), Mul(b.y, a.z)),
        Sub(Mul(a.z, b.x), Mul(b.z, a.x)),
        Sub(Mul(a.x, b.y), Mul(b.x, a.y)))
LengthSquared(a) == Dot(a, a)
Length(a) == Sqrt(Dot(a, a))
Normalize(a) == VScale(a, Recip(Length(a)))
Lerp(a, b, s) == VAdd(a, VScale(VSub(b, a), s))

(***************************************************************************)
(* Ray and Material                                                        *)
(***************************************************************************)
Ray(origin, dir) == [origin |-> origin, dir |-> dir]

At(ray, t) == VAdd(ray.origin, VScale(ray.dir, t))

Material(colour, diffusion, refractive_index, luminance) ==
    [colour |-> colour, diffusion |-> diffusion,
     refractive_index |-> refractive_index, luminance |-> luminance]

(***************************************************************************)
(* Collidable primitives                                                   *)
(***************************************************************************)
NoMaterial == Material(VZero, 0, 0, 0)
None == [some |-> FALSE, ray |-> Ray(VZero, VZero), t |-> 0,
         normal |-> VZero, material |-> NoMaterial]
Collision(ray, t, normal, material) ==
    [some |-> TRUE, ray |-> ray, t |-> t, normal |-> normal, material |-> material]

Plane(origin, normal, material) ==
    [kind |-> "plane", origin |-> origin, normal |-> normal, radius |-> 0,
     material |-> material]
Sphere(origin, radius, material) ==
    [kind |-> "sphere", origin |-> origin, normal |-> VZero, radius |-> radius,
     material |-> material]

PlaneT(self, ray) ==
    LET numerator ==
            Sub(Sub(Mul(Neg(Sub(ray.origin.x, self.origin.x)), self.normal.x),
                    Mul(Sub(ray.origin.y, self.origin.y), self.normal.y)),
                Mul(Sub(ray.origin.z, self.origin.z), self.normal.z))
        denominator ==
            Add(Add(Mul(ray.dir.x, self.normal.x), Mul(ray.dir.y, self.normal.y)),
                Mul(ray.dir.z, self.normal.z))
    IN  Div(numerator, denominator)

PlaneHit(self, ray, t) ==
    IF Lt(t, 0) THEN None
    ELSE Collision(ray, t, Normalize(self.normal), self.material)

PlaneTrace(self, ray) == PlaneHit(self, ray, PlaneT(self, ray))

\* t0 and t1, or <<>> when the discriminant is negative
RootsOf(a, b, disc) ==
    IF Lt(disc, 0) THEN <<>>
    ELSE << Div(Add(Neg(b), Sqrt(disc)), Mul(F(2), a)),
            Div(Sub(Neg(b), Sqrt(disc)), Mul(F(2), a)) >>

Quadratic(a, b, c) == RootsOf(a, b, Sub(Mul(b, b), Mul(Mul(F(4), a), c)))

SphereRootsOff(self, ray, off) ==
    Quadratic(LengthSquared(ray.dir),
              Mul(F(2), Add(Add(Mul(off.x, ray.dir.x), Mul(off.y, ray.dir.y)),
                            Mul(off.z, ray.dir.z))),
              Sub(LengthSquared(off), Mul(self.radius, self.radius)))

\* The two roots of the ray-sphere quadratic, <<t0, t1>>, or <<>> when the
\* discriminant is negative.
SphereRoots(self, ray) ==
    SphereRootsOff(self, ray,
                   Vec(Sub(ray.origin.x, self.origin.x),
                       Sub(ray.origin.y, self.origin.y),
                       Sub(ray.origin.z, self.origin.z)))

\* f64::max: the other operand when one is NaN.
Max(a, b) == IF a = NaN THEN b ELSE IF b = NaN THEN a ELSE IF b > a THEN b ELSE a

\* t as an Option<f64>: <<>> is None, <<t>> is Some(t).
SphereSelectMax(t0, t1) ==
    IF Gt(t0, 0) THEN (IF Gt(t1, 0) THEN << Max(t0, t1) >> ELSE << t0 >>)
    ELSE <<>>

SphereSelect(t0, t1) ==
    IF Gt(t0, 0) THEN (IF Gt(t1, 0) THEN << Min(t0, t1) >> ELSE << t0 >>)
    ELSE <<>>

SphereHit(self, ray, t) ==
    IF t # <<>>
    THEN Collision(ray, t[1], Normalize(VSub(At(ray, t[1]), self.origin)),
                   self.material)
    ELSE None

SphereTraceRoots(self, ray, roots) ==
    IF roots = <<>> THEN None
    ELSE SphereHit(self, ray, SphereSelect(roots[1], roots[2]))

SphereTrace(self, ray) == SphereTraceRoots(self, ray, SphereRoots(self, ray))

\* dyn Collideable::trace
Trace(o, ray) ==
    IF o.kind = "plane" THEN PlaneTrace(o, ray) ELSE SphereTrace(o, ray)


(***************************************************************************)
(* The random generator R: Rng + SeedableRng.  The generator is a crate    *)
(* outside the repository; it is modelled as a full-period linear          *)
(* congruential generator over RngMod states.  A draw advances the state   *)
(* and yields a uniform value u in [0, 1).                                 *)
(***************************************************************************)
RngMod == 16

SeedFromU64(seed) == seed % RngMod
RngNext(rng) == (5 * rng + 3) % RngMod
RngUnit(rng) == (rng * Scale) \div RngMod

\* rng.gen_range(lo..hi): <<value, generator after the draw>>
GenRange(rng, lo, hi) ==
    LET next == RngNext(rng)
    IN  << Add(lo, Mul(Sub(hi, lo), RngUnit(next))), next >>

(***************************************************************************)
(* Angles.  An angle is kept as its sine and cosine, which is all the code *)
(* reads of it: acos, asin and the half angle are then algebraic.          *)
(***************************************************************************)
Angle(s, c) == [s |-> s, c |-> c]

\* sin and cos of 2*PI*k/RngMod, k = 0..RngMod-1
SinTable ==
    << 0, 3827, 7071, 9239, 10000, 9239, 7071, 3827,
       0, -3827, -7071, -9239, -10000, -9239, -7071, -3827 >>
CosTable ==
    << 10000, 9239, 7071, 3827, 0, -3827, -7071, -9239,
       -10000, -9239, -7071, -3827, 0, 3827, 7071, 9239 >>

\* rng.gen_range(0.0..2.0 * PI): <<angle, generator after the draw>>
GenAngle(rng) ==
    LET next == RngNext(rng)
    IN  << Angle(SinTable[next + 1], CosTable[next + 1]), next >>

\* f64::acos of a value clamped to [-1, 1] (glam's acos_approx): in [0, PI]
Acos(v) ==
    LET c == Clamp(v, -One, One)
    IN  Angle(Sqrt(Sub(One, Mul(c, c))), c)

\* f64::asin: in [-PI/2, PI/2], NaN outside [-1, 1]
Asin(v) ==
    IF v = NaN \/ v > One \/ v < -One THEN Angle(NaN, NaN)
    ELSE Angle(v, Sqrt(Sub(One, Mul(v, v))))

\* angle * 0.5, for an angle in [-PI, PI]
HalfAngle(a) ==
    Angle(IF Lt(a.s, 0) THEN Neg(Sqrt(Div(Sub(One, a.c), F(2))))
          ELSE Sqrt(Div(Sub(One, a.c), F(2))),
          Sqrt(Div(Add(One, a.c), F(2))))

\* DVec3::angle_between
AngleBetween(a, b) ==
    Acos(Div(Dot(a, b), Sqrt(Mul(LengthSquared(a), LengthSquared(b)))))

(***************************************************************************)
(* DQuat (glam)                                                            *)
(***************************************************************************)
Quat(x, y, z, w) == [x |-> x, y |-> y, z |-> z, w |-> w]
QuatIdentity == Quat(0, 0, 0, One)

\* DQuat::from_axis_angle
FromXyzw(v, w) == Quat(v.x, v.y, v.z, w)

FromAxisAngle(axis, angle) ==
    FromXyzw(VScale(axis, HalfAngle(angle).s), HalfAngle(angle).c)

\* DQuat * DVec3
QuatMulVecParts(w, b, rhs) ==
    VAdd(VAdd(VScale(rhs, Sub(Mul(w, w), Dot(b, b))),
              VScale(b, Mul(Dot(rhs, b), F(2)))),
         VScale(Cross(b, rhs), Mul(w, F(2))))

QuatMulVec(q, rhs) == QuatMulVecParts(q.w, Vec(q.x, q.y, q.z), rhs)

(***************************************************************************)
(* Cameras                                                                 *)
(***************************************************************************)
OrthCamera(origin, rotation, size) ==
    [kind |-> "orth", origin |-> origin, rotation |-> rotation,
     size |-> size, horizontal_fov |-> 0]
PerspectiveCamera(origin, rotation, horizontal_fov) ==
    [kind |-> "perspective", origin |-> origin, rotation |-> rotation,
     size |-> [x |-> 0, y |-> 0], horizontal_fov |-> horizontal_fov]

\* (horizontal_fov.to_radians() / 2.0).tan() for the fields of view used
TanHalfFov(fov) ==
    CASE fov = 60 -> 5774
      [] fov = 90 -> 10000
      [] fov = 120 -> 17321

\* The two jitter draws: <<off_x, off_y, generator after them>>
JitterY(off_x, rng, scale_y) ==
    << off_x, GenRange(rng, Div(Neg(scale_y), F(2)), Div(scale_y, F(2)))[1],
       RngNext(rng) >>

Jitter(rng, scale_x, scale_y) ==
    JitterY(GenRange(rng, Div(Neg(scale_x), F(2)), Div(scale_x, F(2)))[1],
            RngNext(rng), scale_y)

\* <<ray, generator after the two jitter draws>>
OrthRay(self, pixel, scale_x, scale_y, j) ==
    << Ray(VAdd(Vec(Add(Sub(Add(Mul(F(pixel.x), scale_x), Div(scale_x, F(2))),
                            Div(self.size.x, F(2))), j[1]),
                    Add(Sub(Add(Mul(F(pixel.y), scale_y), Div(scale_y, F(2))),
                            Div(self.size.y, F(2))), j[2]),
                    0),
                self.origin),
           QuatMulVec(self.rotation, VecI(0, 0, 1))),
       j[3] >>

OrthScaled(self, pixel, scale_x, scale_y, rng) ==
    OrthRay(self, pixel, scale_x, scale_y, Jitter(rng, scale_x, scale_y))

OrthOutgoingRay(self, res, pixel, rng) ==
    OrthScaled(self, pixel, Div(self.size.x, F(res.x)), Div(self.size.y, F(res.y)),
               rng)

PerspectiveRay(self, pixel, scale_x, scale_y, j) ==
    << Ray(self.origin,
           QuatMulVec(self.rotation,
               Normalize(
                   Vec(Add(Sub(Add(Mul(F(pixel.x), scale_x), Div(scale_x, F(2))),
                               5000), j[1]),
                       Add(Sub(Add(Mul(F(pixel.y), scale_y), Div(scale_y, F(2))),
                               5000), j[2]),
                       Div(5000, TanHalfFov(self.horizontal_fov)))))),
       j[3] >>

PerspectiveScaled(self, pixel, scale_x, scale_y, rng) ==
    PerspectiveRay(self, pixel, scale_x, scale_y, Jitter(rng, scale_x, scale_y))

PerspectiveOutgoingRay(self, res, pixel, rng) ==
    PerspectiveScaled(self, pixel, Div(One, F(res.x)), Div(One, F(res.y)), rng)

\* Camera::outgoing_ray
OutgoingRay(camera, res, pixel, rng) ==
    IF camera.kind = "orth" THEN OrthOutgoingRay(camera, res, pixel, rng)
    ELSE PerspectiveOutgoingRay(camera, res, pixel, rng)


(***************************************************************************)
(* Solver: construction                                                    *)
(***************************************************************************)
\* Solver::new: max_bounces 0, samples 1, no objects, the default sky
New(camera, resolution) ==
    [camera |-> camera, resolution |-> resolution, max_bounces |-> 0,
     samples |-> 1, objects |-> <<>>]

WithMaxBounces(self, max_bounces) == [self EXCEPT !.max_bounces = max_bounces]

WithSamples(self, samples) == [self EXCEPT !.samples = samples]

\* solver.objects.push(..), once per object of the list
WithObjects(self, objects) == [self EXCEPT !.objects = self.objects \o objects]

\* the default sky closure of Solver::new
Sky(d) == VScale(Vec(7000, 7000, 10000), Add(d.y, 2000))

(***************************************************************************)
(* Solver::sample, the transport sampler                                   *)
(***************************************************************************)
\* .filter_map(|o| o.trace(&ray, rng)).fold(None, ..): the objects from i on
\* the closure of the fold; a None of filter_map is skipped
FoldStep(min, c) ==
    IF c.some /\ Gt(IF min.some THEN min.t ELSE PInf, c.t) THEN c ELSE min

RECURSIVE FoldMin(_, _, _, _)
FoldMin(objects, ray, i, min) ==
    IF i > Len(objects) THEN min
    ELSE FoldMin(objects, ray, i + 1, FoldStep(min, Trace(objects[i], ray)))

NearestCollision(objects, ray) == FoldMin(objects, ray, 1, None)

SampleKindBudgetFirst(c, bounce, max_bounces) ==
    IF bounce >= max_bounces THEN "out_of_bounces"
    ELSE IF ~c.some THEN "sky"
    ELSE "recurse"

SampleKindOffByOne(c, bounce, max_bounces) ==
    IF ~c.some THEN "sky"
    ELSE IF bounce > max_bounces THEN "out_of_bounces"
    ELSE "recurse"

\* The two early returns of sample: the sky first, the bounce budget next.

SampleKind(c, bounce, max_bounces) ==
    IF ~c.some THEN "sky"
    ELSE IF bounce >= max_bounces THEN "out_of_bounces"
    ELSE "recurse"

\* n1, n2 and the normal facing along the ray
Interface(c) ==
    IF Lt(Dot(c.normal, c.ray.dir), 0)
    THEN [n1 |-> One, n2 |-> c.material.refractive_index,
          directed_normal |-> VNeg(c.normal)]
    ELSE [n1 |-> c.material.refractive_index, n2 |-> One,
          directed_normal |-> c.normal]

SinA2Inverted(n1, n2, incidence_angle) == Mul(Div(n2, n1), incidence_angle.s)

SinA2(n1, n2, incidence_angle) == Mul(Div(n1, n2), incidence_angle.s)

\* Fresnel reflectance, the mean of the two polarisations
FresnelOf(n1_cosi, n1_cost, n2_cosi, n2_cost) ==
    Div(Add(Sq(Abs(Div(Sub(n1_cosi, n2_cost), Add(n1_cosi, n2_cost)))),
            Sq(Abs(Div(Sub(n1_cost, n2_cosi), Add(n1_cost, n2_cosi))))),
        F(2))

Fresnel(n1, n2, incidence_angle, transmission_angle) ==
    FresnelOf(Mul(n1, incidence_angle.c), Mul(n1, transmission_angle.c),
              Mul(n2, incidence_angle.c), Mul(n2, transmission_angle.c))

\* What the refraction decision found: the indices, the directed normal, the
\* incidence angle, whether the reflection is internal, whether the ray is
\* transmitted and at which angle, and the generator after the decision.
Decision(i, incidence_angle, internal, transmit, transmission_angle, rng) ==
    [n1 |-> i.n1, n2 |-> i.n2, directed_normal |-> i.directed_normal,
     incidence_angle |-> incidence_angle, internal |-> internal,
     transmit |-> transmit, transmission_angle |-> transmission_angle,
     rng |-> rng]

\* if rng.gen_range(0.0..1.0) < r { reflect } else { transmit }
DecideFresnel(i, incidence_angle, transmission_angle, rng) ==
    Decision(i, incidence_angle, FALSE,
             ~Lt(GenRange(rng, 0, One)[1],
                 Fresnel(i.n1, i.n2, incidence_angle, transmission_angle)),
             transmission_angle, RngNext(rng))

\* if sin_a2 > 1.0 { internal reflection } else { Fresnel }
DecideSin(i, incidence_angle, sin_a2, rng) ==
    IF Gt(sin_a2, One)
    THEN Decision(i, incidence_angle, TRUE, FALSE, Angle(0, 0), rng)
    ELSE DecideFresnel(i, incidence_angle, Asin(sin_a2), rng)

DecideAngle(i, incidence_angle, rng) ==
    DecideSin(i, incidence_angle, SinA2(i.n1, i.n2, incidence_angle), rng)

DecideAt(i, c, rng) ==
    DecideAngle(i, AngleBetween(c.ray.dir, i.directed_normal), rng)

\* The refraction decision of a collision.
Decide(c, rng) == DecideAt(Interface(c), c, rng)

TransmitRay(c, directed_normal, transmission_angle) ==
    Ray(At(c.ray, Mul(c.t, 10001)),
        QuatMulVec(FromAxisAngle(Cross(c.ray.dir, directed_normal),
                                 transmission_angle),
                   directed_normal))

RandomUnitVector(theta, theta2) ==
    Vec(Mul(theta.c, theta2.c), Mul(theta.c, theta2.s), theta.s)

ReflectFrom(ray, c, hit_pos, random_unit_vector) ==
    Ray(hit_pos,
        Lerp(VAdd(ray.dir, VScale(c.normal, F(2))),
             IF Gt(Dot(VAdd(hit_pos, c.normal), c.ray.origin), 0)
             THEN VAdd(random_unit_vector, c.normal)
             ELSE VSub(random_unit_vector, c.normal),
             c.material.diffusion))

\* <<the reflected ray, the generator after the two draws>>
ReflectRay(ray, c, rng) ==
    << ReflectFrom(ray, c, At(c.ray, Mul(c.t, 9999)),
                   RandomUnitVector(GenAngle(rng)[1], GenAngle(RngNext(rng))[1])),
       RngNext(RngNext(rng)) >>

\* c.material.colour * sample + c.material.colour * c.material.luminance
Propagate(c, sample) ==
    VAdd(VMul(c.material.colour, sample),
         VScale(c.material.colour, c.material.luminance))


(***************************************************************************)
(* Solver::solve, the render loop                                          *)
(***************************************************************************)
Pixels(resolution) == (0..(resolution.x - 1)) \X (0..(resolution.y - 1))

\* RgbImage::new: every channel 0
NewImage(resolution) == [p \in Pixels(resolution) |-> <<0, 0, 0>>]

\* The row of the image that sample row y is written to.
PixelRowNoFlip(resolution, y) == y

PixelRow(resolution, y) == resolution.y - y - 1

\* One stored pixel: the sum of the samples scaled by avg_scale, clamped,
\* scaled to 255 and cast to u8.
ToneMap(sum, avg_scale) ==
    << AsU8(Mul(Clamp(Mul(sum.x, avg_scale), 0, One), F(255))),
       AsU8(Mul(Clamp(Mul(sum.y, avg_scale), 0, One), F(255))),
       AsU8(Mul(Clamp(Mul(sum.z, avg_scale), 0, One), F(255))) >>

AvgScale(samples) == Div(One, F(samples))

(***************************************************************************)
(* State                                                                   *)
(***************************************************************************)
VARIABLES
    solver,     \* the Solver: camera, resolution, max_bounces, samples, objects
    seed,       \* the argument of the current call of solve
    run,        \* which call of solve this is (1, 2)
    images,     \* per finished call: its seed, its image, the generator it left
    pc,         \* where the program is
    x, y, n,    \* the three loop counters of solve
    sample,     \* solve's accumulator of the pixel
    rng,        \* the generator's state
    img,        \* the image being rendered
    bar,        \* the progress bar's position
    stack,      \* the active calls of Solver::sample, the innermost last
    ret,        \* the value the last finished call of sample returned
    step,       \* what the last step of sample did
    writes,     \* how many times each pixel of img was written
    radiance,   \* per sample coordinate, the accumulated radiance when stored
    probe       \* a primitive, a ray and what trace returned for them

vars == << solver, seed, run, images, pc, x, y, n, sample, rng, img, bar,
           stack, ret, step, writes, radiance, probe >>

renderVars == << seed, run, images, x, y, n, sample, img, bar, writes, radiance >>

Frame(ray, bounce) == [ray |-> ray, bounce |-> bounce, phase |-> "call", c |-> None]

NoStep == [kind |-> "none", bounce |-> 0, ray |-> Ray(VZero, VZero), c |-> None,
           rng |-> 0, n1 |-> 0, n2 |-> 0, sin_i |-> 0, depth |-> 0]

NoProbe == [object |-> Plane(VZero, VZero, NoMaterial), ray |-> Ray(VZero, VZero),
            result |-> None, traced |-> FALSE]

Top == stack[Len(stack)]
Pop == SubSeq(stack, 1, Len(stack) - 1)

(***************************************************************************)
(* Actions of Solver::sample.  A call is one frame of the stack; a frame   *)
(* in phase "wait" at the top of the stack is a call whose recursive call  *)
(* has returned ret.                                                       *)
(***************************************************************************)
Calling == pc = "sampling" /\ stack # <<>> /\ Top.phase = "call"

\* No collision: return (self.sky)(ray.dir)
SampleSky ==
    /\ Calling
    /\ \E c \in { NearestCollision(solver.objects, Top.ray) } :
           /\ SampleKind(c, Top.bounce, solver.max_bounces) = "sky"
           /\ ret' = Sky(Top.ray.dir)
           /\ step' = [NoStep EXCEPT !.kind = "sky", !.bounce = Top.bounce,
                                     !.ray = Top.ray, !.c = c, !.rng = rng,
                                     !.depth = Len(stack)]
    /\ stack' = Pop
    /\ UNCHANGED << solver, pc, rng, probe, renderVars >>

\* Out of bounces: return DVec3::ZERO
SampleOutOfBounces ==
    /\ Calling
    /\ \E c \in { NearestCollision(solver.objects, Top.ray) } :
           /\ SampleKind(c, Top.bounce, solver.max_bounces) = "out_of_bounces"
           /\ ret' = VZero
           /\ step' = [NoStep EXCEPT !.kind = "out_of_bounces",
                                     !.bounce = Top.bounce, !.ray = Top.ray,
                                     !.c = c, !.rng = rng, !.depth = Len(stack)]
    /\ stack' = Pop
    /\ UNCHANGED << solver, pc, rng, probe, renderVars >>

\* The transmit branch and the recursive call
SampleTransmit ==
    /\ Calling
    /\ \E c \in { NearestCollision(solver.objects, Top.ray) } :
         /\ SampleKind(c, Top.bounce, solver.max_bounces) = "recurse"
         /\ \E d \in { Decide(c, rng) } :
           /\ d.transmit
           /\ rng' = d.rng
           /\ stack' = Append([stack EXCEPT ![Len(stack)].phase = "wait",
                                            ![Len(stack)].c = c],
                              Frame(TransmitRay(c, d.directed_normal,
                                                d.transmission_angle),
                                    Top.bounce + 1))
           /\ step' = [kind |-> "transmit", bounce |-> Top.bounce, ray |-> Top.ray,
                       c |-> c, rng |-> rng, n1 |-> d.n1, n2 |-> d.n2,
                       sin_i |-> d.incidence_angle.s, depth |-> Len(stack)]
    /\ UNCHANGED << solver, pc, ret, probe, renderVars >>

\* The reflect branch and the recursive call
SampleReflect ==
    /\ Calling
    /\ \E c \in { NearestCollision(solver.objects, Top.ray) } :
         /\ SampleKind(c, Top.bounce, solver.max_bounces) = "recurse"
         /\ \E d \in { Decide(c, rng) } :
           /\ ~d.transmit
           /\ \E new_ray \in { ReflectRay(Top.ray, c, d.rng) } :
                /\ rng' = new_ray[2]
                /\ stack' = Append([stack EXCEPT ![Len(stack)].phase = "wait",
                                                 ![Len(stack)].c = c],
                                   Frame(new_ray[1], Top.bounce + 1))
           /\ step' = [kind |-> "reflect", bounce |-> Top.bounce, ray |-> Top.ray,
                       c |-> c, rng |-> rng, n1 |-> d.n1, n2 |-> d.n2,
                       sin_i |-> d.incidence_angle.s, depth |-> Len(stack)]
    /\ UNCHANGED << solver, pc, ret, probe, renderVars >>

\* Propagate: the recursive call returned ret
SamplePropagate ==
    /\ pc = "sampling" /\ stack # <<>> /\ Top.phase = "wait"
    /\ ret' = Propagate(Top.c, ret)
    /\ step' = [NoStep EXCEPT !.kind = "propagate", !.bounce = Top.bounce,
                              !.ray = Top.ray, !.c = Top.c, !.rng = rng,
                              !.depth = Len(stack)]
    /\ stack' = Pop
    /\ UNCHANGED << solver, pc, rng, probe, renderVars >>

NextSample ==
    \/ SampleSky
    \/ SampleOutOfBounces
    \/ SampleTransmit
    \/ SampleReflect
    \/ SamplePropagate


(***************************************************************************)
(* Bounds                                                                  *)
(***************************************************************************)
MaxRes == 2
MaxSamples == 2
MaxBounces == 2
MaxSeed == 1

(***************************************************************************)
(* Actions of Solver::solve                                                *)
(***************************************************************************)
\* A call of solve(seed): a new image, a new progress bar, the generator
\* seeded from the argument; the generator a previous call left is kept.
SolveBeginKeepRng ==
    /\ pc = "idle"
    /\ img' = NewImage(solver.resolution)
    /\ writes' = [p \in Pixels(solver.resolution) |-> 0]
    /\ radiance' = [p \in Pixels(solver.resolution) |-> VZero]
    /\ bar' = 0
    /\ rng' = IF run = 1 THEN SeedFromU64(seed) ELSE rng
    /\ x' = 0 /\ y' = 0 /\ n' = 0
    /\ sample' = VZero
    /\ pc' = "loop"
    /\ UNCHANGED << solver, seed, run, images, stack, ret, step, probe >>

\* A call of solve(seed): a new image, a new progress bar, the generator
\* seeded from the argument.
SolveBegin ==
    /\ pc = "idle"
    /\ img' = NewImage(solver.resolution)
    /\ writes' = [p \in Pixels(solver.resolution) |-> 0]
    /\ radiance' = [p \in Pixels(solver.resolution) |-> VZero]
    /\ bar' = 0
    /\ rng' = SeedFromU64(seed)
    /\ x' = 0 /\ y' = 0 /\ n' = 0
    /\ sample' = VZero
    /\ pc' = "loop"
    /\ UNCHANGED << solver, seed, run, images, stack, ret, step, probe >>

\* One turn of the samples loop, up to the call of self.sample(ray, 0, rng)
SolveSample ==
    /\ pc = "loop" /\ x < solver.resolution.x /\ y < solver.resolution.y
    /\ n < solver.samples
    /\ \E r \in { OutgoingRay(solver.camera, solver.resolution,
                              [x |-> x, y |-> y], rng) } :
           /\ rng' = r[2]
           /\ stack' = << Frame(r[1], 0) >>
    /\ pc' = "sampling"
    /\ UNCHANGED << solver, ret, step, probe, renderVars >>

\* sample += the value the call returned
SolveAccumulate ==
    /\ pc = "sampling" /\ stack = <<>>
    /\ sample' = VAdd(sample, ret)
    /\ n' = n + 1
    /\ pc' = "loop"
    /\ UNCHANGED << solver, seed, run, images, x, y, rng, img, bar, stack, ret,
                    step, writes, radiance, probe >>

\* After the samples loop: average, clamp, scale and store the pixel
SolvePixel ==
    /\ pc = "loop" /\ x < solver.resolution.x /\ y < solver.resolution.y
    /\ n >= solver.samples
    /\ \E at \in { << x, PixelRow(solver.resolution, y) >> } :
           /\ img' = [img EXCEPT ![at] = ToneMap(sample, AvgScale(solver.samples))]
           /\ writes' = [writes EXCEPT ![at] = @ + 1]
    /\ radiance' = [radiance EXCEPT ![<<x, y>>] = sample]
    /\ y' = y + 1
    /\ n' = 0
    /\ sample' = VZero
    /\ UNCHANGED << solver, seed, run, images, pc, x, rng, bar, stack, ret, step,
                    probe >>

\* The end of a column: bar.inc(self.resolution.x)
SolveColumn ==
    /\ pc = "loop" /\ x < solver.resolution.x /\ y >= solver.resolution.y
    /\ bar' = bar + solver.resolution.x
    /\ x' = x + 1
    /\ y' = 0
    /\ UNCHANGED << solver, seed, run, images, pc, n, sample, rng, img, stack,
                    ret, step, writes, radiance, probe >>

\* bar.finish(); img
SolveFinish ==
    /\ pc = "loop" /\ x >= solver.resolution.x
    /\ images' = Append(images, [seed |-> seed, img |-> img, rng |-> rng])
    /\ pc' = "done"
    /\ UNCHANGED << solver, seed, run, x, y, n, sample, rng, img, bar, stack,
                    ret, step, writes, radiance, probe >>

\* The caller calls solve a second time on the same Solver.
SolveAgain ==
    /\ pc = "done" /\ run = 1
    /\ run' = 2
    /\ \E s \in 0..MaxSeed : seed' = s
    /\ pc' = "idle"
    /\ UNCHANGED << solver, images, x, y, n, sample, rng, img, bar, stack, ret,
                    step, writes, radiance, probe >>

Next ==
    \/ SolveBegin
    \/ SolveSample
    \/ NextSample
    \/ SolveAccumulate
    \/ SolvePixel
    \/ SolveColumn
    \/ SolveFinish

NextTwin == Next \/ SolveAgain

(***************************************************************************)
(* Scenes                                                                  *)
(***************************************************************************)
Matte == Material(Vec(3000, 7500, 3000), One, 0, 0)
Mirror == Material(Vec(9500, 9500, 9500), 0, 0, 0)
Glass == Material(Vec(10000, 10000, 10000), 0, 15000, 0)
Light == Material(Vec(10000, 10000, 10000), 0, 0, F(5))

Floor == Plane(VZero, VecI(0, 1, 0), Matte)
Ceiling == Plane(VecI(0, 2, 0), VecI(0, 1, 0), Matte)
Wall == Plane(VecI(0, 0, 3), VecI(0, 0, -1), Mirror)
LightSphere == Sphere(VecI(0, 1, 3), One, Light)
GlassSphere == Sphere(VecI(0, 1, 2), 5000, Glass)

MainCamera == PerspectiveCamera(VecI(0, 1, 0), QuatIdentity, 60)
FlatCamera == OrthCamera(VecI(0, 1, 0), QuatIdentity, [x |-> F(2), y |-> F(2)])

Scenes ==
    { [camera |-> MainCamera, objects |-> <<>>],
      [camera |-> MainCamera, objects |-> << LightSphere >>],
      [camera |-> MainCamera, objects |-> << Floor, GlassSphere, LightSphere >>],
      [camera |-> FlatCamera, objects |-> << Ceiling, Wall >>] }

(***************************************************************************)
(* Initial states                                                          *)
(***************************************************************************)
Solvers ==
    { WithObjects(WithSamples(WithMaxBounces(
          New(sc.camera, [x |-> w, y |-> h]), b), k), sc.objects) :
        sc \in Scenes, w \in 0..MaxRes, h \in 0..MaxRes, k \in 0..MaxSamples,
        b \in 0..MaxBounces }

Init ==
    /\ solver \in Solvers
    /\ seed \in 0..MaxSeed
    /\ run = 1
    /\ images = <<>>
    /\ pc = "idle"
    /\ x = 0 /\ y = 0 /\ n = 0
    /\ sample = VZero
    /\ rng = 0
    /\ img = << >>
    /\ bar = 0
    /\ stack = <<>>
    /\ ret = VZero
    /\ step = NoStep
    /\ writes = << >>
    /\ radiance = << >>
    /\ probe = NoProbe

Spec == Init /\ [][Next]_vars

SpecTwin == Init /\ [][NextTwin]_vars


(***************************************************************************)
(* Solver::sample on its own: a call at bounce 0 on a ray of a bounded     *)
(* set, in a scene of Scenes, from any state of the generator.             *)
(***************************************************************************)
MaxDir == 1

SampleOrigins == { VecI(0, 1, 0), Vec(0, 14000, F(2)) }

SampleRays ==
    { Ray(o, VecI(dx, dy, dz)) :
        o \in SampleOrigins, dx \in {0}, dy \in (-MaxDir)..MaxDir,
        dz \in (-MaxDir)..MaxDir }

InitSample ==
    /\ \E sc \in Scenes, b \in 0..MaxBounces :
         solver = WithObjects(WithMaxBounces(
                      New(sc.camera, [x |-> 1, y |-> 1]), b), sc.objects)
    /\ \E r \in SampleRays : stack = << Frame(r, 0) >>
    /\ rng \in 0..(RngMod - 1)
    /\ pc = "sampling"
    /\ seed = 0
    /\ run = 1
    /\ images = <<>>
    /\ x = 0 /\ y = 0 /\ n = 0
    /\ sample = VZero
    /\ img = << >>
    /\ bar = 0
    /\ ret = VZero
    /\ step = NoStep
    /\ writes = << >>
    /\ radiance = << >>
    /\ probe = NoProbe

SpecSample == InitSample /\ [][NextSample]_vars

(***************************************************************************)
(* trace on its own: one primitive and one ray of bounded sets             *)
(***************************************************************************)
MaxCoord == 1

ProbeObjects ==
    { Plane(VZero, VecI(0, 1, 0), Matte),
      Plane(VecI(0, 0, 1), VecI(0, 0, -2), Mirror),
      Sphere(VZero, One, Glass),
      Sphere(VecI(0, 0, 1), 5000, Light),
      Sphere(VecI(0, 1, 1), F(2), Matte) }

ProbeRays ==
    { Ray(VecI(0, oy, oz), VecI(dx, dy, dz)) :
        oy \in (-MaxCoord)..MaxCoord, oz \in (-MaxCoord)..MaxCoord,
        dx \in (-MaxCoord)..MaxCoord, dy \in (-MaxCoord)..MaxCoord,
        dz \in (-MaxCoord)..MaxCoord }

\* Plane::trace
TracePlane ==
    /\ pc = "probe" /\ ~probe.traced /\ probe.object.kind = "plane"
    /\ probe' = [probe EXCEPT !.result = PlaneTrace(probe.object, probe.ray),
                              !.traced = TRUE]
    /\ UNCHANGED << solver, pc, rng, stack, ret, step, renderVars >>

\* Sphere::trace
TraceSphere ==
    /\ pc = "probe" /\ ~probe.traced /\ probe.object.kind = "sphere"
    /\ probe' = [probe EXCEPT !.result = SphereTrace(probe.object, probe.ray),
                              !.traced = TRUE]
    /\ UNCHANGED << solver, pc, rng, stack, ret, step, renderVars >>

NextTrace == TracePlane \/ TraceSphere

InitTrace ==
    /\ \E o \in ProbeObjects, r \in ProbeRays :
         probe = [object |-> o, ray |-> r, result |-> None, traced |-> FALSE]
    /\ pc = "probe"
    /\ solver = New(MainCamera, [x |-> 1, y |-> 1])
    /\ seed = 0
    /\ run = 1
    /\ images = <<>>
    /\ x = 0 /\ y = 0 /\ n = 0
    /\ sample = VZero
    /\ rng = 0
    /\ img = << >>
    /\ bar = 0
    /\ stack = <<>>
    /\ ret = VZero
    /\ step = NoStep
    /\ writes = << >>
    /\ radiance = << >>

SpecTrace == InitTrace /\ [][NextTrace]_vars


(***************************************************************************)
(* Claims                                                                  *)
(***************************************************************************)
Objects == { solver.objects[i] : i \in 1..Len(solver.objects) }

\* The last step was a step of a call of sample on step.ray (not the return
\* of a recursive call).
CallStep == step.kind \in {"sky", "out_of_bounces", "transmit", "reflect"}

\* C1: with max_bounces = 0, a call of sample at bounce 0 whose ray hits a
\* surface of material m returns m.colour * m.luminance, whatever m is.
C1_EmissionAtZeroBounces ==
    ( /\ solver.max_bounces = 0
      /\ pc = "sampling" /\ stack = <<>>
      /\ CallStep /\ step.bounce = 0 /\ step.c.some )
    => ret = VScale(step.c.material.colour, step.c.material.luminance)

\* C2: trace returns a Collision only with a finite t that is > 0.
C2_CollisionTPositiveFinite ==
    (probe.traced /\ probe.result.some)
    => (IsFinite(probe.result.t) /\ Gt(probe.result.t, 0))

\* C3: a Solver with a zero resolution on an axis or with samples = 0 never
\* reaches the averaging of a pixel and never returns an image.
C3_InvalidConfigurationRejected ==
    (solver.resolution.x = 0 \/ solver.resolution.y = 0 \/ solver.samples = 0)
    => ( /\ images = <<>>
         /\ \A p \in DOMAIN writes : writes[p] = 0 )

\* C4: a call of sample whose ray no primitive of the scene collides with
\* returns sky(ray.dir), at any bounce depth, without a draw and without a
\* recursive call.
C4_SkyWhenNothingHit ==
    (CallStep /\ \A o \in Objects : ~Trace(o, step.ray).some)
    => ( /\ step.kind = "sky"
         /\ ret = Sky(step.ray.dir)
         /\ rng = step.rng
         /\ Len(stack) = step.depth - 1 )

C4_Witness ==
    /\ step.kind = "sky"
    /\ solver.objects # <<>>
    /\ step.bounce >= 1 /\ step.bounce >= solver.max_bounces
    /\ ret = Sky(step.ray.dir)

\* The roots of the probe's quadratic that are > 0.
ProbeRoots == SphereRoots(probe.object, probe.ray)
PositiveRoots == { r \in { ProbeRoots[1], ProbeRoots[2] } : Gt(r, 0) }

\* C5: when the discriminant is >= 0, Sphere::trace returns the smallest of
\* the roots that are > 0, and no collision when no root is > 0.
C5_SphereSmallestPositiveRoot ==
    (probe.traced /\ probe.object.kind = "sphere" /\ ProbeRoots # <<>>)
    => IF PositiveRoots = {} THEN ~probe.result.some
       ELSE /\ probe.result.some
            /\ probe.result.t \in PositiveRoots
            /\ \A r \in PositiveRoots : probe.result.t <= r

\* The ray starts inside the sphere: the near root is <= 0 and the far root
\* is the one returned.
C5_Witness ==
    /\ probe.traced /\ probe.object.kind = "sphere" /\ ProbeRoots # <<>>
    /\ Le(ProbeRoots[2], 0) /\ Gt(ProbeRoots[1], 0)
    /\ probe.result.some /\ probe.result.t = ProbeRoots[1]

\* C6: two calls of solve with the same seed on the same Solver return the
\* same image, and leave the generator in the same state.
C6_SameSeedSameImage ==
    (Len(images) = 2 /\ images[1].seed = images[2].seed)
    => (images[1].img = images[2].img /\ images[1].rng = images[2].rng)

\* Two finished renders of the same seed that drew from the generator and
\* stored a pixel that is not black.
C6_Witness ==
    /\ Len(images) = 2 /\ images[1].seed = images[2].seed
    /\ images[2].rng # SeedFromU64(images[2].seed)
    /\ \E p \in DOMAIN images[2].img : images[2].img[p] # <<0, 0, 0>>

\* (n1 / n2) * sin(incidence angle) > 1 at the last step
TotalInternalReflection == Gt(Mul(Div(step.n1, step.n2), step.sin_i), One)

\* C7: when (n1 / n2) * sin(incidence angle) > 1 the reflect branch is taken
\* and the generator has made the two draws of the reflected direction only.
C7_TotalInternalReflectionReflects ==
    (step.kind \in {"transmit", "reflect"} /\ TotalInternalReflection)
    => (step.kind = "reflect" /\ rng = RngNext(RngNext(step.rng)))

\* A ray inside a medium of index > 1 meets its surface beyond the critical
\* angle.
C7_Witness ==
    /\ step.kind = "reflect" /\ TotalInternalReflection
    /\ step.n2 = One /\ Gt(step.n1, One)

\* The channel stored for the sum of a pixel's samples.
StoredChannel(sum) ==
    AsU8(Mul(Clamp(Mul(sum, Div(One, F(solver.samples))), 0, One), F(255)))

\* C8: after solve, the pixel at (x, height - y - 1) holds the average of
\* sample coordinate (x, y), clamped to [0, 1] and scaled to [0, 255], and
\* every pixel was written exactly once.
C8_PixelsStoredFlippedOnce ==
    pc = "done"
    => \A p \in Pixels(solver.resolution) :
         /\ img[<< p[1], solver.resolution.y - p[2] - 1 >>]
              = << StoredChannel(radiance[p].x), StoredChannel(radiance[p].y),
                   StoredChannel(radiance[p].z) >>
         /\ writes[p] = 1

\* A finished render of two rows that differ.
C8_Witness ==
    /\ pc = "done" /\ solver.resolution.x >= 1 /\ solver.resolution.y = 2
    /\ solver.samples >= 1
    /\ img[<<0, 0>>] # img[<<0, 1>>]
    /\ radiance[<<0, 0>>] # VZero

\* The steps the guards of sample allow a call at its first step.
StepsPossible ==
    { k \in {"sky", "out_of_bounces", "transmit", "reflect"} :
        \E c \in { NearestCollision(solver.objects, Top.ray) } :
          \E kind \in { SampleKind(c, Top.bounce, solver.max_bounces) } :
            \/ kind = k
            \/ /\ kind = "recurse"
               /\ k = IF Decide(c, rng).transmit THEN "transmit" ELSE "reflect" }

\* While a call of sample is at its first step, exactly one of the four
\* steps is possible.
ExactlyOneStep == Calling => Cardinality(StepsPossible) = 1

BouncesBounded ==
    /\ Len(stack) <= solver.max_bounces + 1
    /\ \A i \in 1..Len(stack) :
         stack[i].bounce = i - 1 /\ stack[i].bounce <= solver.max_bounces

\* A step of a call either returns (the call leaves the stack) or makes one
\* recursive call, at the next bounce.
StepShape ==
    Calling =>
        \/ /\ step'.kind \in {"sky", "out_of_bounces"}
           /\ stack' = Pop
        \/ /\ step'.kind \in {"transmit", "reflect"}
           /\ Len(stack') = Len(stack) + 1
           /\ stack'[Len(stack')].phase = "call"
           /\ stack'[Len(stack')].bounce = Top.bounce + 1
           /\ SubSeq(stack', 1, Len(stack) - 1) = Pop

\* The steps a call of sample has left at most: 0 exactly when no call is
\* active.
Variant ==
    IF stack = <<>> THEN 0
    ELSE Len(stack) + IF Top.phase = "call"
                      THEN 2 * (solver.max_bounces - Top.bounce) + 1
                      ELSE 0

\* C9: a call sample(ray, 0, rng) terminates: every step lowers a variant
\* that is never negative and is 0 only when the call has returned; each
\* step is exactly one of sky, out of bounces, transmit and reflect; a
\* recursive call runs one bounce deeper; the i-th nested call runs at
\* bounce i - 1, which never exceeds max_bounces.
C9_SampleTerminatesWithinBounces ==
    /\ [](BouncesBounded /\ ExactlyOneStep /\ Variant >= 0)
    /\ [][StepShape /\ Variant' < Variant]_vars

\* The deepest nesting the budget allows is reached.
C9_Witness ==
    /\ solver.max_bounces >= 2
    /\ Len(stack) = solver.max_bounces + 1
    /\ Top.bounce = solver.max_bounces

\* The collisions the primitives of the scene return for the last call's ray
Returned == { Trace(o, step.ray) : o \in { q \in Objects : Trace(q, step.ray).some } }

\* C10: the collision a call of sample uses is one a primitive returned, with
\* a t <= that of every collision returned; it uses none only when no
\* primitive returned one.
C10_NearestOfAllReturned ==
    CallStep
    => IF Returned = {} THEN ~step.c.some
       ELSE /\ step.c \in Returned
            /\ \A h \in Returned : Le(step.c.t, h.t)

============================================================================
